---- MODULE Spec2Model ----
(***************************************************************************)
(* State-machine model of the StackedCards component                       *)
(* (src/src/components/StackedCards.svelte) and of its two helpers clamp   *)
(* and debounce (src/unnamed/part_000, the same code as part_001).         *)
(*                                                                         *)
(* Numbers that the component treats as fractions of 1 (minBrightness,     *)
(* maxBrightness, the --opacity value) are kept in hundredths, so 100      *)
(* stands for 1.0.  distance * Math.round(100 / steps) is an integer, and  *)
(* dividing it by 100 is monotone, so comparing hundredths is comparing    *)
(* the fractions.                                                          *)
(*                                                                         *)
(* An optional value (undefined in the source) is a sequence: << >> is     *)
(* undefined and <<v>> is the value v.                                     *)
(***************************************************************************)
EXTENDS Integers, Sequences, FiniteSets

VARIABLES
    cardsLength,             \* cards.length, the only part of `cards` the script reads
    hoveredCardIndex,        \* let hoveredCardIndex
    isHoverDisabled,         \* let isHoverDisabled
    scrollCardsOnWheel,      \* export let scrollCardsOnWheel
    minBrightness,           \* export let minBrightness, in hundredths
    maxBrightness,           \* export let maxBrightness, in hundredths
    invert,                  \* export let invert
    gradientTransitionSteps, \* export let gradientTransitionSteps, optional
    timers,                  \* the runtime's pending timeouts: handle -> ms left
    timeout,                 \* debounce's closed-over `timeout` handle, 0 when undefined
    opacity,                 \* --opacity of each child of the container, optional, in hundredths
    event,                   \* the DOM event the last step dispatched, if any
    sinceWheel,              \* history: ms since the last handled wheel event, capped at Delay
    burst,                   \* history: wheel events handled since hover was last enabled, capped
    unlocks,                 \* history: runs of enableHover's callback since the burst began, capped
    wheelRun                 \* history: the current run of consecutive wheel events with deltaY > 0

vars == <<cardsLength, hoveredCardIndex, isHoverDisabled, scrollCardsOnWheel,
          minBrightness, maxBrightness, invert, gradientTransitionSteps,
          timers, timeout, opacity, event, sinceWheel, burst, unlocks, wheelRun>>

brightnessProps == <<minBrightness, maxBrightness, invert, gradientTransitionSteps>>
debounceHistory == <<sinceWheel, burst, unlocks>>

(***************************************************************************)
(* Bounds of the model and constants of the program.                       *)
(***************************************************************************)
MaxCards == 5       \* longest card list
MaxSteps == 6       \* largest gradientTransitionSteps
TimeSteps == 2      \* clock ticks per cooldown
MaxCount == 2       \* cap of the history counters burst and unlocks
MaxRun == 3         \* cap of the length recorded in wheelRun
Delay == 1000       \* the delay enableHover is debounced with

TickMs == Delay \div TimeSteps
Levels == {0, 40, 100}           \* brightness bounds tried, in hundredths
DeltaYs == {-100, 0, 100}        \* WheelEvent.deltaY values tried
HoverArgs == -1 .. MaxCards + 1  \* indices handed to handleCardHover
StepsArgs == {<< >>} \cup {<<n>> : n \in 1 .. MaxSteps}

Min(a, b) == IF a < b THEN a ELSE b
Max(a, b) == IF a > b THEN a ELSE b
\* Faulty variant: the difference is used with its sign.
AbsForgotten(a) == a

Abs(a) == IF a < 0 THEN -a ELSE a
Sign(a) == IF a > 0 THEN 1 ELSE IF a < 0 THEN -1 ELSE 0

\* Math.round(100 / steps) for an integer steps > 0: the nearest integer, a
\* half rounding up.
Round100Over(steps) == (200 + steps) \div (2 * steps)

(***************************************************************************)
(* utils: clamp and debounce.                                              *)
(***************************************************************************)
\* Faulty variant: the upper bound is not applied.
clampNoUpper(value, min, max) == Max(value, min)

\* Faulty variant: the lower bound is not applied.
clampNoLower(value, min, max) == Min(value, max)

clamp(value, min, max) == Min(Max(value, min), max)

\* Faulty variant: the pending timeout is left running.
clearTimeoutForgotten(table, handle) == table

\* clearTimeout(handle) on the runtime's timer table: the timeout the handle
\* names is dropped; a handle that names none (undefined, or one that has
\* already run) changes nothing.
clearTimeout(table, handle) == [h \in DOMAIN table \ {handle} |-> table[h]]

\* The handle setTimeout returns: a positive integer naming no pending timeout.
NewHandle(table) ==
    CHOOSE h \in 1 .. Cardinality(DOMAIN table) + 1 :
        /\ h \notin DOMAIN table
        /\ \A k \in 1 .. h - 1 : k \in DOMAIN table

setTimeout(table, delay) ==
    [h \in DOMAIN table \cup {NewHandle(table)} |->
        IF h \in DOMAIN table THEN table[h] ELSE delay]

\* Faulty variant: a call made while a timeout is pending does not restart it.
debounceTableOnce(table, handle, delay) ==
    IF handle \in DOMAIN table THEN table ELSE setTimeout(table, delay)

\* The function debounce(fn, delay) returns, as its effect on the timer table
\* and on the closed-over handle.
debounceTable(table, handle, delay) == setTimeout(clearTimeout(table, handle), delay)

\* Faulty variant: the handle setTimeout returns is not kept.
debounceHandleLost(table, handle) == handle

debounceHandle(table, handle) == NewHandle(clearTimeout(table, handle))

(***************************************************************************)
(* The component's script.                                                 *)
(***************************************************************************)
\* Faulty variant: the index is stored as it is asked for.
setCardIndexUnclamped(index) == index

\* The value setCardIndex(index) assigns to hoveredCardIndex.
setCardIndex(index) == clamp(index, 0, cardsLength - 1)

\* Faulty variant: hover is never suppressed.
hoverNeverSuppressed == FALSE

\* Faulty variant: the test of the early return is inverted.
hoverSuppressedInverted == ~isHoverDisabled

\* handleCardHover's early return: if (isHoverDisabled) return
hoverSuppressed == isHoverDisabled

\* Faulty variant: the wheel is handled whatever the prop says.
wheelAlwaysEnabled == TRUE

\* handleCardScroll's early return is taken unless scrollCardsOnWheel is set.
wheelEnabled == scrollCardsOnWheel

\* Faulty variant: the sign of the wheel delta is added.
scrollTargetForward(deltaY) == hoveredCardIndex + Sign(deltaY)

\* The index handleCardScroll asks for: hoveredCardIndex - Math.sign(event.deltaY)
scrollTarget(deltaY) == hoveredCardIndex - Sign(deltaY)

\* gradientTransitionSteps ?? cards.length
StepsOr(steps, len) == IF steps = << >> THEN len ELSE steps[1]

\* The value the reactive block sets as child i's --opacity, in hundredths.
cardOpacity(i, index, len, steps, min, max, inv) ==
    LET value == clamp(Abs(i - index) * Round100Over(StepsOr(steps, len)), min, max)
    IN  IF inv THEN 100 - value ELSE value

\* One run of the reactive block followed by the update of the each block.
\* The block runs before the DOM is patched, so it styles the children the
\* container has when it runs; a card the patch adds has no --opacity yet,
\* and a card the patch removes is gone.
reactiveOpacity(children, index, len, steps, min, max, inv) ==
    [i \in 0 .. len - 1 |->
        IF i \in DOMAIN children
        THEN <<cardOpacity(i, index, len, steps, min, max, inv)>>
        ELSE << >>]

\* Faulty variant: the reactive block runs after every assignment.
afterIndexUpdateAlways(newIndex) ==
    reactiveOpacity(opacity, newIndex, cardsLength, gradientTransitionSteps,
                    minBrightness, maxBrightness, invert)

\* The --opacity values after a handler has assigned newIndex: the reactive
\* block runs again only if hoveredCardIndex was invalidated, that is changed.
afterIndexUpdate(newIndex) ==
    IF newIndex = hoveredCardIndex
    THEN opacity
    ELSE reactiveOpacity(opacity, newIndex, cardsLength, gradientTransitionSteps,
                         minBrightness, maxBrightness, invert)

\* The markup: card i is rendered active, with its content block, when
\* i === hoveredCardIndex.
isActive(i) == i = hoveredCardIndex

\* The cards of the each block that are rendered expanded.
expandedCards == {i \in 0 .. cardsLength - 1 : isActive(i)}

NoEvent == [type |-> "none", arg |-> 0, defaultPrevented |-> FALSE, requested |-> << >>]
NoRun == [start |-> 0, len |-> 0]

handleCardHover(currentCardIndex) ==
    /\ IF hoverSuppressed
       THEN /\ event' = [type |-> "hover", arg |-> currentCardIndex,
                         defaultPrevented |-> FALSE, requested |-> << >>]
            /\ UNCHANGED <<hoveredCardIndex, opacity>>
       ELSE /\ hoveredCardIndex' = setCardIndex(currentCardIndex)
            /\ opacity' = afterIndexUpdate(setCardIndex(currentCardIndex))
            /\ event' = [type |-> "hover", arg |-> currentCardIndex,
                         defaultPrevented |-> FALSE, requested |-> <<currentCardIndex>>]
    /\ wheelRun' = NoRun
    /\ UNCHANGED <<cardsLength, isHoverDisabled, scrollCardsOnWheel, brightnessProps,
                   timers, timeout, debounceHistory>>

\* Faulty variant: the callback leaves hover as it is.
enableHoverCallbackIdle ==
    /\ isHoverDisabled' = isHoverDisabled
    /\ unlocks' = Min(unlocks + 1, MaxCount)

\* The callback given to debounce: () => { isHoverDisabled = false }
enableHoverCallback ==
    /\ isHoverDisabled' = FALSE
    /\ unlocks' = Min(unlocks + 1, MaxCount)

\* The wheelRun history after a handled wheel event.
NextRun(deltaY) ==
    IF Sign(deltaY) # 1 THEN NoRun
    ELSE IF wheelRun.len = 0 \/ wheelRun.len = MaxRun
         THEN [start |-> hoveredCardIndex, len |-> 1]
         ELSE [start |-> wheelRun.start, len |-> wheelRun.len + 1]

handleCardScroll(deltaY) ==
    IF ~wheelEnabled
    THEN /\ event' = [type |-> "wheel", arg |-> deltaY,
                      defaultPrevented |-> FALSE, requested |-> << >>]
         /\ wheelRun' = NoRun
         /\ UNCHANGED <<cardsLength, hoveredCardIndex, isHoverDisabled, scrollCardsOnWheel,
                        brightnessProps, timers, timeout, opacity, debounceHistory>>
    ELSE /\ event' = [type |-> "wheel", arg |-> deltaY, defaultPrevented |-> TRUE,
                      requested |-> <<scrollTarget(deltaY)>>]
         /\ hoveredCardIndex' = setCardIndex(scrollTarget(deltaY))
         /\ opacity' = afterIndexUpdate(setCardIndex(scrollTarget(deltaY)))
         /\ isHoverDisabled' = TRUE
         /\ timers' = debounceTable(timers, timeout, Delay)
         /\ timeout' = debounceHandle(timers, timeout)
         /\ sinceWheel' = 0
         /\ burst' = IF isHoverDisabled THEN Min(burst + 1, MaxCount) ELSE 1
         /\ unlocks' = IF isHoverDisabled THEN unlocks ELSE 0
         /\ wheelRun' = NextRun(deltaY)
         /\ UNCHANGED <<cardsLength, scrollCardsOnWheel, brightnessProps>>

(***************************************************************************)
(* The environment: the event loop, the clock and the parent component.    *)
(***************************************************************************)
\* A pending timeout whose delay has elapsed runs its callback.
TimerFire(h) ==
    /\ h \in DOMAIN timers
    /\ timers[h] = 0
    /\ timers' = [k \in DOMAIN timers \ {h} |-> timers[k]]
    /\ enableHoverCallback
    /\ event' = NoEvent
    /\ UNCHANGED <<cardsLength, hoveredCardIndex, scrollCardsOnWheel, brightnessProps,
                   timeout, opacity, sinceWheel, burst, wheelRun>>

\* TickMs milliseconds pass.  A timeout may run late, never early.
Tick ==
    /\ timers' = [h \in DOMAIN timers |-> Max(timers[h] - TickMs, 0)]
    /\ sinceWheel' = Min(sinceWheel + TickMs, Delay)
    /\ event' = NoEvent
    /\ UNCHANGED <<cardsLength, hoveredCardIndex, isHoverDisabled, scrollCardsOnWheel,
                   brightnessProps, timeout, opacity, burst, unlocks, wheelRun>>

\* The parent assigns a new array of n cards to the `cards` prop.  An array
\* always invalidates, so the reactive block runs; nothing else reads cards.
SetCards(n) ==
    /\ cardsLength' = n
    /\ opacity' = reactiveOpacity(opacity, hoveredCardIndex, n, gradientTransitionSteps,
                                  minBrightness, maxBrightness, invert)
    /\ event' = NoEvent
    /\ wheelRun' = NoRun
    /\ UNCHANGED <<hoveredCardIndex, isHoverDisabled, scrollCardsOnWheel, brightnessProps,
                   timers, timeout, debounceHistory>>

\* The parent sets the scrollCardsOnWheel prop.
SetScrollCardsOnWheel(b) ==
    /\ scrollCardsOnWheel' = b
    /\ event' = NoEvent
    /\ UNCHANGED <<cardsLength, hoveredCardIndex, isHoverDisabled, brightnessProps,
                   timers, timeout, opacity, debounceHistory, wheelRun>>

\* The parent sets the brightness props; the reactive block reads all four.
SetBrightness(min, max, inv, steps) ==
    /\ <<min, max, inv, steps>> # brightnessProps
    /\ minBrightness' = min
    /\ maxBrightness' = max
    /\ invert' = inv
    /\ gradientTransitionSteps' = steps
    /\ opacity' = reactiveOpacity(opacity, hoveredCardIndex, cardsLength, steps, min, max, inv)
    /\ event' = NoEvent
    /\ UNCHANGED <<cardsLength, hoveredCardIndex, isHoverDisabled, scrollCardsOnWheel,
                   timers, timeout, debounceHistory, wheelRun>>

(***************************************************************************)
(* Specifications.                                                         *)
(***************************************************************************)
\* The state once the component is mounted with n cards: the reactive block
\* has run with the container bound, so every card has its --opacity.
Mounted(n, scroll, min, max, inv, steps) ==
    /\ cardsLength = n
    /\ hoveredCardIndex = 0
    /\ isHoverDisabled = FALSE
    /\ scrollCardsOnWheel = scroll
    /\ minBrightness = min
    /\ maxBrightness = max
    /\ invert = inv
    /\ gradientTransitionSteps = steps
    /\ timers = << >>
    /\ timeout = 0
    /\ opacity = [i \in 0 .. n - 1 |-> <<cardOpacity(i, 0, n, steps, min, max, inv)>>]
    /\ event = NoEvent
    /\ sinceWheel = Delay
    /\ burst = 0
    /\ unlocks = 0
    /\ wheelRun = NoRun

\* Spec: the component as it is wired, with the brightness props left at
\* their defaults.  A card can be hovered only if it is rendered.
Init ==
    \E n \in 0 .. MaxCards, scroll \in BOOLEAN :
        Mounted(n, scroll, 0, 100, FALSE, << >>)

CardHover == \E i \in 0 .. cardsLength - 1 : handleCardHover(i)
Wheel == \E deltaY \in DeltaYs : handleCardScroll(deltaY)
Timer == \E h \in DOMAIN timers : TimerFire(h)
ReplaceCards == \E n \in 0 .. MaxCards : SetCards(n)
ToggleScroll == \E b \in BOOLEAN : SetScrollCardsOnWheel(b)

Next ==
    \/ CardHover
    \/ Wheel
    \/ Timer
    \/ Tick
    \/ ReplaceCards
    \/ ToggleScroll

Spec == Init /\ [][Next]_vars

\* SpecLive: Spec on an event loop that keeps running: time passes, and a
\* timeout whose delay has elapsed gets its callback run unless it is
\* cleared first.
Fairness == WF_vars(Tick) /\ WF_vars(Timer)
SpecLive == Init /\ [][Next]_vars /\ Fairness

\* SpecCalls: a fixed, non-empty card list, and handleCardHover called with
\* any index, in range or not.
InitCalls ==
    \E n \in 1 .. MaxCards, scroll \in BOOLEAN :
        Mounted(n, scroll, 0, 100, FALSE, << >>)

AnyHover == \E i \in HoverArgs : handleCardHover(i)

NextCalls ==
    \/ AnyHover
    \/ Wheel
    \/ Timer
    \/ Tick
    \/ ToggleScroll

SpecCalls == InitCalls /\ [][NextCalls]_vars

\* SpecBrightness: the brightness mapper over every valid setting of its props.
InitBrightness ==
    \E n \in 0 .. MaxCards, min \in Levels, max \in Levels, inv \in BOOLEAN,
       steps \in StepsArgs :
        /\ min <= max
        /\ Mounted(n, FALSE, min, max, inv, steps)

ChangeBrightness ==
    \E min \in Levels, max \in Levels, inv \in BOOLEAN, steps \in StepsArgs :
        /\ min <= max
        /\ SetBrightness(min, max, inv, steps)

NextBrightness ==
    \/ CardHover
    \/ ReplaceCards
    \/ ChangeBrightness

SpecBrightness == InitBrightness /\ [][NextBrightness]_vars

(***************************************************************************)
(* Properties.                                                             *)
(***************************************************************************)
\* A step that dispatched a hover, or a wheel, event.  Every other step
\* leaves event = NoEvent.
HoverStep == event'.type = "hover"
WheelStep == event'.type = "wheel"

\* C1: with a non-empty card list, after any sequence of hover(i) (i any
\* integer, in range or not), wheel and timer events, the active index is
\* within 0 .. cardCount - 1.
ActiveIndexInRange == 0 <= hoveredCardIndex /\ hoveredCardIndex <= cardsLength - 1

\* C1 witness: a hover that asked for an index past the last card was
\* handled and left the last card active.
ActiveIndexInRangeWitness ==
    /\ event.type = "hover"
    /\ event.requested # << >>
    /\ event.requested[1] >= cardsLength
    /\ cardsLength > 1
    /\ hoveredCardIndex = cardsLength - 1

\* C2: a hover that arrives while hover is disabled changes neither the
\* active index, nor the lock, nor the pending timer; a hover that arrives
\* while hover is enabled sets the active index to clamp(i, 0, cardCount - 1).
HoverRespectsLock ==
    [][HoverStep =>
         IF isHoverDisabled
         THEN UNCHANGED <<hoveredCardIndex, isHoverDisabled, timers, timeout>>
         ELSE hoveredCardIndex' = Min(Max(event'.arg, 0), cardsLength - 1)]_vars

\* C2 witness: a hover on another card than the active one arrived during
\* the cooldown and the active card did not change.
HoverRespectsLockWitness ==
    /\ event.type = "hover"
    /\ isHoverDisabled
    /\ event.arg \in 0 .. cardsLength - 1
    /\ event.arg # hoveredCardIndex

\* C3: with wheel scrolling enabled every wheel event, hover disabled or
\* not, sets the active index to clamp(activeIndex - deltaSign, 0,
\* cardCount - 1), and leaves hover disabled with the cooldown timer armed
\* for the full delay.
WheelAlwaysActs ==
    [][(WheelStep /\ scrollCardsOnWheel) =>
         /\ hoveredCardIndex' =
                Min(Max(hoveredCardIndex - Sign(event'.arg), 0), cardsLength - 1)
         /\ isHoverDisabled'
         /\ timeout' \in DOMAIN timers'
         /\ timers'[timeout'] = Delay]_vars

\* C3 witness: a wheel event that arrived while hover was disabled, part of
\* the way through the cooldown, moved the active index.
WheelAlwaysActsWitness ==
    /\ event.type = "wheel"
    /\ event.defaultPrevented
    /\ burst >= 2
    /\ Sign(event.arg) # 0
    /\ event.requested = <<hoveredCardIndex>>

\* C4: a burst of wheel events, each arriving before the cooldown of the
\* one before has run out, is followed by exactly one unlock; the unlock
\* comes no sooner than one full delay after the last wheel event of the
\* burst, and hover stays disabled from the first wheel event until then.
OneUnlockPerBurst ==
    /\ [](/\ unlocks <= 1
          /\ (isHoverDisabled => unlocks = 0 /\ burst >= 1)
          /\ (burst >= 1 /\ ~isHoverDisabled => unlocks = 1))
    /\ [][unlocks' > unlocks \/ (isHoverDisabled /\ ~isHoverDisabled') =>
            /\ sinceWheel = Delay
            /\ isHoverDisabled /\ ~isHoverDisabled'
            /\ unlocks = 0 /\ unlocks' = 1
            /\ timers' = << >>]_vars

\* C4 witness: hover has been enabled again after a burst of two or more
\* wheel events.
OneUnlockPerBurstWitness ==
    /\ burst >= 2
    /\ unlocks = 1
    /\ ~isHoverDisabled

\* C5: the intensity applied to a card lies within [min, max], whatever the
\* card, the active index, the steps and the invert flag.
IntensityWithinBounds ==
    \A i \in DOMAIN opacity :
        opacity[i] # << >> =>
            minBrightness <= opacity[i][1] /\ opacity[i][1] <= maxBrightness

\* The raw intensity of card i, in hundredths: distance * round(100 / steps).
RawIntensity(i) ==
    Abs(i - hoveredCardIndex) * Round100Over(StepsOr(gradientTransitionSteps, cardsLength))

\* C6: the intensity applied to a card is clamp(invert ? 1 - raw : raw, min,
\* max): the inversion comes before the clamp.
IntensityInvertsThenClamps ==
    \A i \in DOMAIN opacity :
        opacity[i] # << >> =>
            opacity[i][1] =
                Min(Max(IF invert THEN 100 - RawIntensity(i) ELSE RawIntensity(i),
                        minBrightness), maxBrightness)

\* C7 as stated: three consecutive wheel events with deltaSign = +1 from
\* active index 2 of 5 cards ask for index 5 and leave index 4 active.
WheelDownReachesLast ==
    (wheelRun = [start |-> 2, len |-> 3] /\ cardsLength = 5) =>
        event.requested = <<5>> /\ hoveredCardIndex = 4

\* C7 amended: a run of n consecutive wheel events with deltaSign = +1 that
\* began at a valid active index s moves the active index towards the first
\* card and saturates there: it leaves index max(s - n, 0) active, and its
\* last event asked for max(s - n + 1, 0) - 1 (from index 2 of 5 cards,
\* three events ask for -1 at last and leave index 0 active).
WheelDownReachesFirst ==
    (wheelRun.len >= 1 /\ 0 <= wheelRun.start /\ wheelRun.start < cardsLength) =>
        /\ hoveredCardIndex = Max(wheelRun.start - wheelRun.len, 0)
        /\ (event.type = "wheel" =>
               event.requested = <<Max(wheelRun.start - wheelRun.len + 1, 0) - 1>>)

\* C7 witness: the run of the example has happened.
WheelDownReachesFirstWitness ==
    /\ wheelRun = [start |-> 2, len |-> 3]
    /\ cardsLength = 5
    /\ hoveredCardIndex = 0
    /\ event.requested = <<-1>>

\* C8: when the card list is replaced by a non-empty one while the active
\* index is valid, the active index is clamped into the new range (and so
\* kept if it is still valid).
ReplacementReclamps ==
    [][(/\ event'.type = "none"
        /\ cardsLength' # cardsLength
        /\ cardsLength' > 0
        /\ 0 <= hoveredCardIndex /\ hoveredCardIndex < cardsLength) =>
         hoveredCardIndex' = Min(Max(hoveredCardIndex, 0), cardsLength' - 1)]_vars

\* C9: with wheel scrolling off, a wheel event changes neither the active
\* index, nor the lock, nor the timer, and its default action is not
\* prevented.
DisabledWheelIgnored ==
    [][(WheelStep /\ ~scrollCardsOnWheel) =>
         /\ UNCHANGED <<hoveredCardIndex, isHoverDisabled, timers, timeout>>
         /\ ~event'.defaultPrevented]_vars

\* C9 witness: wheel scrolling was turned off during a cooldown and a wheel
\* event then arrived: hover is still disabled, the timer still pending.
DisabledWheelIgnoredWitness ==
    /\ event.type = "wheel"
    /\ ~event.defaultPrevented
    /\ ~scrollCardsOnWheel
    /\ isHoverDisabled
    /\ timeout \in DOMAIN timers
    /\ timers[timeout] < Delay

\* C10: with an empty card list a hover or wheel event does not change the
\* active index.
EmptyListGuarded ==
    [][((HoverStep \/ WheelStep) /\ cardsLength = 0) =>
         hoveredCardIndex' = hoveredCardIndex]_vars

\* C11: with a non-empty card list, after any sequence of hover, wheel and
\* timer events exactly one card is expanded, the one at the active index.
OneCardExpanded ==
    /\ Cardinality(expandedCards) = 1
    /\ \A i \in 0 .. cardsLength - 1 : i \in expandedCards <=> i = hoveredCardIndex
    /\ hoveredCardIndex \in 0 .. cardsLength - 1

\* C11 witness: a wheel event moved the expansion off the first card, and
\* the card it moved to is the only one expanded.
OneCardExpandedWitness ==
    /\ event.type = "wheel"
    /\ event.defaultPrevented
    /\ cardsLength >= 3
    /\ expandedCards = {1}

\* C12: with invert off, the active card has intensity clamp(0, min, max),
\* which is min.
ActiveCardGetsMin ==
    (/\ ~invert
     /\ hoveredCardIndex \in DOMAIN opacity
     /\ opacity[hoveredCardIndex] # << >>) =>
        opacity[hoveredCardIndex] = <<minBrightness>>

\* C12 witness: a hover has made another card than the first active, the
\* lower bound is above 0, and the active card has it as its intensity.
ActiveCardGetsMinWitness ==
    /\ ~invert
    /\ event.type = "hover"
    /\ hoveredCardIndex > 0
    /\ hoveredCardIndex \in DOMAIN opacity
    /\ minBrightness > 0
    /\ minBrightness < maxBrightness
    /\ opacity[hoveredCardIndex] = <<minBrightness>>

\* C13: hover is disabled exactly when a cooldown timer is pending, and at
\* most one timer is ever pending: the one debounce holds the handle of.
LockedIffTimerPending ==
    /\ Cardinality(DOMAIN timers) <= 1
    /\ isHoverDisabled <=> DOMAIN timers # {}
    /\ DOMAIN timers \subseteq {timeout}

\* C13 witness: a second wheel event has re-armed the timer, whose delay
\* has now elapsed without its callback having run yet.
LockedIffTimerPendingWitness ==
    /\ isHoverDisabled
    /\ burst >= 2
    /\ timeout \in DOMAIN timers
    /\ timers[timeout] = 0

\* A step in which the callback of enableHover ran.
UnlockStep == unlocks' > unlocks

\* C14: the component starts with active index 0 and hover enabled.  After
\* that the active index changes only in a hover that arrives while hover
\* is enabled or in a wheel event that arrives while wheel scrolling is on;
\* the timer's callback enables hover and changes nothing else of the
\* component's state; hover becomes disabled only in a wheel event that
\* arrives while wheel scrolling is on.
StateChangesOnlyByItsEvents ==
    /\ hoveredCardIndex = 0 /\ ~isHoverDisabled
    /\ [][/\ hoveredCardIndex' # hoveredCardIndex =>
                \/ HoverStep /\ ~isHoverDisabled
                \/ WheelStep /\ scrollCardsOnWheel
          /\ (~isHoverDisabled /\ isHoverDisabled') => (WheelStep /\ scrollCardsOnWheel)
          /\ UnlockStep =>
                /\ ~isHoverDisabled'
                /\ UNCHANGED <<hoveredCardIndex, cardsLength, scrollCardsOnWheel,
                               brightnessProps, opacity, timeout>>]_vars

\* C14 witness: the timer's callback has just run, after a wheel event had
\* moved the active index, and the index is where the wheel left it.
StateChangesOnlyByItsEventsWitness ==
    /\ event = NoEvent
    /\ unlocks = 1
    /\ ~isHoverDisabled
    /\ timers = << >>
    /\ hoveredCardIndex > 0
    /\ hoveredCardIndex < cardsLength

\* The index the handler of the last event asked setCardIndex for, clamped.
ClampedRequest(e) == Min(Max(e.requested[1], 0), cardsLength - 1)

\* C15: once setCardIndex(r) has run the active index is clamp(r, 0,
\* cardCount - 1), so that running it again with the same r finds the index
\* already there; and a call whose clamped index is the current one changes
\* neither the active index nor any card's --opacity (the reactive block,
\* the only observer of the index, does not run again).
SetCardIndexIdempotent ==
    /\ [](event.requested # << >> => hoveredCardIndex = ClampedRequest(event))
    /\ [][(event'.requested # << >> /\ ClampedRequest(event') = hoveredCardIndex) =>
             UNCHANGED <<hoveredCardIndex, opacity>>]_vars

\* C15 witness: after the card list grew, a hover on the card that is
\* already active was handled, and the added card still has no --opacity.
SetCardIndexIdempotentWitness ==
    /\ event.type = "hover"
    /\ event.requested = <<hoveredCardIndex>>
    /\ \E i \in DOMAIN opacity : opacity[i] = << >>

\* The distance of card i to the active index.
Distance(i) == Max(i - hoveredCardIndex, hoveredCardIndex - i)

\* C16: with invert off a card's intensity is a non-decreasing function of
\* its distance to the active index alone, so two cards at the same
\* distance have the same intensity; with 5 cards, active index 2, 5 steps
\* and bounds 0 and 1, cards 0 and 4 have intensity 0.4 and card 2 has 0.
IntensityFollowsDistance ==
    ~invert =>
        /\ \A i, j \in DOMAIN opacity :
              (/\ opacity[i] # << >>
               /\ opacity[j] # << >>
               /\ Distance(i) <= Distance(j)) =>
                  opacity[i][1] <= opacity[j][1]
        /\ (/\ cardsLength = 5
            /\ hoveredCardIndex = 2
            /\ StepsOr(gradientTransitionSteps, cardsLength) = 5
            /\ minBrightness = 0
            /\ maxBrightness = 100
            /\ \A i \in DOMAIN opacity : opacity[i] # << >>) =>
               opacity[0] = <<40>> /\ opacity[2] = <<0>> /\ opacity[4] = <<40>>

\* C16 witness: the example, reached by a hover on card 2, with the steps
\* given by the caller.
IntensityFollowsDistanceWitness ==
    /\ ~invert
    /\ event.type = "hover"
    /\ cardsLength = 5
    /\ hoveredCardIndex = 2
    /\ gradientTransitionSteps = <<5>>
    /\ minBrightness = 0
    /\ maxBrightness = 100
    /\ opacity = [i \in 0 .. 4 |-> IF i \in {0, 4} THEN <<40>>
                                    ELSE IF i = 2 THEN <<0>> ELSE <<20>>]

\* A state a handled wheel event has just produced.
WheelHandled == event.type = "wheel" /\ event.defaultPrevented

\* C17: hover is not disabled for ever.  From a state in which hover is
\* disabled, hover gets enabled unless another wheel event is handled
\* first, so only an unending stream of wheel events keeps it disabled; and
\* once enabled it stays enabled until a wheel event is handled.
HoverEnabledAgain ==
    /\ (isHoverDisabled /\ ~WheelHandled) ~> (~isHoverDisabled \/ WheelHandled)
    /\ [][(~isHoverDisabled /\ isHoverDisabled') => WheelHandled']_vars

\* C17 witness: hover was disabled by a wheel event, the cooldown ran out,
\* and a hover on another card has been handled since.
HoverEnabledAgainWitness ==
    /\ unlocks = 1
    /\ burst >= 1
    /\ ~isHoverDisabled
    /\ event.type = "hover"
    /\ event.requested = <<hoveredCardIndex>>
    /\ hoveredCardIndex > 0

====
